---- MODULE Spec2Model ----
(***************************************************************************)
(* APEX Arbitrage System - Rust executor library (src/rust/src/lib.rs).    *)
(*                                                                         *)
(* The library is one function, execute_arbitrage, from an ExecutionPlan   *)
(* to an ExecutionResult.  The model has a set of caller threads, each of  *)
(* which builds a plan, calls execute_arbitrage and holds the result, and  *)
(* the environment the plan refers to: a clock (for the deadline) and an   *)
(* execution node (for broadcast and receipts).                            *)
(*                                                                         *)
(* A Rust String is a sequence of characters, one element per Unicode      *)
(* scalar value, which is the unit the width of a format argument counts.  *)
(* An Option<T> is the empty sequence (None) or a one-element sequence.    *)
(***************************************************************************)
EXTENDS Integers, Sequences, FiniteSets, TLC

\* ---------------------------------------------------------------- bounds
NumCallers == 2
MaxTime == 2
MaxIdLen == 66

\* ------------------------------------------------------------- constants
\* the width of the format argument in "0x{:0>64}"
HashWidth == 64

\* ---------------------------------------------------------------- values
None == <<>>

Some(v) == <<v>>

Unwrap(o) == o[1]

Max(a, b) == IF a >= b THEN a ELSE b

RECURSIVE Rep(_, _)
Rep(ch, n) == IF n <= 0 THEN <<>> ELSE <<ch>> \o Rep(ch, n - 1)

Callers == 1..NumCallers

\* the plan of tests::test_execute_arbitrage
TestId == <<"t", "e", "s", "t", "-", "1", "2", "3">>

TestPlan ==
  [ opportunity_id     |-> TestId,
    flashloan_provider |-> <<"A", "a", "v", "e">>,
    calldata           |-> <<"0", "x", "1", "2", "3", "4">>,
    gas_limit          |-> <<"3", "0", "0", "0", "0", "0">>,
    gas_price          |-> <<"5", "0", "0", "0", "0", "0", "0", "0", "0", "0", "0">>,
    nonce              |-> 0,
    deadline           |-> MaxTime + 1 ]

OpportunityIds == { TestId, <<"o", "p", "-", "1">> }

Providers == { <<"A", "a", "v", "e">>, <<"B", "a", "l">> }

Calldatas == { <<"0", "x", "1", "2", "3", "4">>, <<"0", "x">> }

GasLimits == { <<"3", "0", "0", "0", "0", "0">>, <<"-", "1">>, <<>> }

GasPrices == { <<"5", "0", "0", "0", "0", "0", "0", "0", "0", "0", "0">>, <<"a", "b", "c">> }

Nonces == { 0, 1 }

\* a deadline the clock passes, and one it never reaches
Deadlines == { 1, MaxTime + 1 }

\* the plans the callers of Spec build: the test's plan, and the test's plan
\* with one field changed, for every field and every value of it
Plans ==
  { [TestPlan EXCEPT !.opportunity_id = v] : v \in OpportunityIds }
    \cup { [TestPlan EXCEPT !.flashloan_provider = v] : v \in Providers }
    \cup { [TestPlan EXCEPT !.calldata = v] : v \in Calldatas }
    \cup { [TestPlan EXCEPT !.gas_limit = v] : v \in GasLimits }
    \cup { [TestPlan EXCEPT !.gas_price = v] : v \in GasPrices }
    \cup { [TestPlan EXCEPT !.nonce = v] : v \in Nonces }
    \cup { [TestPlan EXCEPT !.deadline = v] : v \in Deadlines }

\* identifiers of every length up to MaxIdLen, for the formatting of tx_hash
IdChars == { "0", "a", "-" }

IdsOfLen(n) ==
  IF n = 0 THEN { <<>> }
  ELSE { Rep(c, n - 1) \o <<d>> : c \in IdChars, d \in IdChars }

FormatIds == UNION { IdsOfLen(n) : n \in 0..MaxIdLen }

FormatPlans == { [TestPlan EXCEPT !.opportunity_id = id] : id \in FormatIds }

\* ------------------------------------------------------ execute_arbitrage
\* format!("{:0>64}", s): fill '0', right-aligned, minimum width 64
PadLeftTrunc(s, fill, width) ==
  IF Len(s) >= width THEN SubSeq(s, Len(s) - width + 1, Len(s))
  ELSE Rep(fill, width - Len(s)) \o s

PadLeft(s, fill, width) ==
  IF Len(s) >= width THEN s ELSE Rep(fill, width - Len(s)) \o s

TxHashOf(opportunity_id) == <<"0", "x">> \o PadLeft(opportunity_id, "0", HashWidth)

\* the line println! writes
LogLine(opportunity_id) == opportunity_id

IsDecimal(s) ==
  /\ Len(s) > 0
  /\ \A i \in 1..Len(s) : s[i] \in { "0", "1", "2", "3", "4", "5", "6", "7", "8", "9" }

InvalidPlan == <<"I", "n", "v", "a", "l", "i", "d", "P", "l", "a", "n">>

TimedOut == <<"T", "i", "m", "e", "d", "O", "u", "t">>

\* mutants of the returned value
ResultValidating(p) ==
  IF IsDecimal(p.gas_limit) /\ IsDecimal(p.gas_price)
  THEN [ success |-> TRUE, tx_hash |-> Some(TxHashOf(p.opportunity_id)),
         error |-> None, gas_used |-> Some(p.gas_limit) ]
  ELSE [ success |-> FALSE, tx_hash |-> None,
         error |-> Some(InvalidPlan), gas_used |-> None ]

ResultWithError(p) ==
  [ success  |-> TRUE,
    tx_hash  |-> Some(TxHashOf(p.opportunity_id)),
    error    |-> IF IsDecimal(p.gas_limit) THEN None ELSE Some(InvalidPlan),
    gas_used |-> Some(p.gas_limit) ]

ResultGasPrice(p) ==
  [ success  |-> TRUE,
    tx_hash  |-> Some(TxHashOf(p.opportunity_id)),
    error    |-> None,
    gas_used |-> Some(p.gas_price) ]

\* the ExecutionResult execute_arbitrage returns for plan p
ExecutionResultOf(p) ==
  [ success  |-> TRUE,
    tx_hash  |-> Some(TxHashOf(p.opportunity_id)),
    error    |-> None,
    gas_used |-> Some(p.gas_limit) ]

\* ----------------------------------------------------------------- state
\* pc[c]      where caller c is: "idle", "called" (inside execute_arbitrage)
\*            or "done" (holding the returned ExecutionResult)
\* plan[c]    the ExecutionPlan moved into the call (lib.rs:26)
\* result[c]  the ExecutionResult returned (lib.rs:37-42, 61)
\* stdout     the lines println! has written (lib.rs:35)
\* expired[c] whether plan.deadline was in the past when c made its call
\* now        the clock plan.deadline is measured against
\* node       the execution node: "up" or "down"
\* nodeCalls  the Node Client calls made so far, as [caller, op] records
VARIABLES pc, plan, result, expired, stdout, now, node, nodeCalls

vars == <<pc, plan, result, expired, stdout, now, node, nodeCalls>>

Init ==
  /\ pc = [c \in Callers |-> "idle"]
  /\ plan = [c \in Callers |-> None]
  /\ result = [c \in Callers |-> None]
  /\ expired = [c \in Callers |-> FALSE]
  /\ stdout = <<>>
  /\ now = 0
  /\ node = "up"
  /\ nodeCalls = <<>>

\* a caller builds plan p and calls execute_arbitrage(p); the plan is moved
\* into the call
Call(c, p) ==
  /\ pc[c] = "idle"
  /\ pc' = [pc EXCEPT ![c] = "called"]
  /\ plan' = [plan EXCEPT ![c] = Some(p)]
  /\ expired' = [expired EXCEPT ![c] = p.deadline < now]
  /\ UNCHANGED <<result, stdout, now, node, nodeCalls>>

\* the body of execute_arbitrage: one line on stdout, then the result.  It
\* reads neither the clock nor the node, and calls no Node Client.
ExecuteArbitrage(c) ==
  /\ pc[c] = "called"
  /\ stdout' = Append(stdout, LogLine(Unwrap(plan[c]).opportunity_id))
  /\ result' = [result EXCEPT ![c] = Some(ExecutionResultOf(Unwrap(plan[c])))]
  /\ pc' = [pc EXCEPT ![c] = "done"]
  /\ UNCHANGED <<plan, expired, now, node, nodeCalls>>

\* the environment: time passes, the node goes down and comes back
Tick ==
  /\ now < MaxTime
  /\ now' = now + 1
  /\ UNCHANGED <<pc, plan, result, expired, stdout, node, nodeCalls>>

NodeFail ==
  /\ node = "up"
  /\ node' = "down"
  /\ UNCHANGED <<pc, plan, result, expired, stdout, now, nodeCalls>>

NodeRecover ==
  /\ node = "down"
  /\ node' = "up"
  /\ UNCHANGED <<pc, plan, result, expired, stdout, now, nodeCalls>>

Next ==
  \/ \E c \in Callers, p \in Plans : Call(c, p)
  \/ \E c \in Callers : ExecuteArbitrage(c)
  \/ Tick
  \/ NodeFail
  \/ NodeRecover

Spec == Init /\ [][Next]_vars

\* one caller, identifiers of every length: the formatting of tx_hash
NextFormat ==
  \/ \E p \in FormatPlans : Call(1, p)
  \/ ExecuteArbitrage(1)

SpecFormat == Init /\ [][NextFormat]_vars

\* ---------------------------------------------------------------- claims
Done(c) == pc[c] = "done"

InFlight(c) == pc[c] = "called"

PlanOf(c) == Unwrap(plan[c])

ResultOf(c) == Unwrap(result[c])

Returns(c) == pc[c] = "called" /\ pc'[c] # "called"

Broadcast(c) ==
  \E i \in 1..Len(nodeCalls) : nodeCalls[i].caller = c /\ nodeCalls[i].op = "broadcast"

ReceiptObserved(c) ==
  \E i \in 1..Len(nodeCalls) : nodeCalls[i].caller = c /\ nodeCalls[i].op = "get_receipt"

\* C1: every call of execute_arbitrage, whatever the plan, returns in one
\* step, and what it returns has success = true, tx_hash present and error
\* absent.
C1_AlwaysSucceeds ==
  [][\A c \in Callers :
       Returns(c) =>
         /\ pc'[c] = "done"
         /\ result'[c] # None
         /\ Unwrap(result'[c]).success = TRUE
         /\ Unwrap(result'[c]).tx_hash # None
         /\ Unwrap(result'[c]).error = None]_vars

\* a call on a plan whose gas_limit is not a number has returned
C1_Witness ==
  \E c \in Callers : Done(c) /\ ~IsDecimal(PlanOf(c).gas_limit) /\ ResultOf(c).success

\* C2: every returned ExecutionResult is exactly one of {success with
\* tx_hash set} and {failure with error set}; tx_hash and error are never
\* both absent, and success never comes with an error.
C2_ResultShape ==
  \A c \in Callers :
    Done(c) =>
      LET r == ResultOf(c)
          ok == r.success = TRUE /\ r.tx_hash # None
          failed == r.success = FALSE /\ r.error # None
      IN /\ (ok \/ failed) /\ ~(ok /\ failed)
         /\ ~(r.tx_hash = None /\ r.error = None)
         /\ ~(r.success = TRUE /\ r.error # None)

\* two calls have returned, one of them on a plan with a malformed gas_limit
C2_Witness ==
  \E c, d \in Callers :
    /\ c # d /\ Done(c) /\ Done(d)
    /\ ~IsDecimal(PlanOf(c).gas_limit)
    /\ ResultOf(d).tx_hash # None

\* C3: a plan whose gas_limit or gas_price is not a non-negative integer is
\* answered with success = false, error = "InvalidPlan" and no tx_hash.
C3_InvalidPlanRejected ==
  \A c \in Callers :
    Done(c) /\ (~IsDecimal(PlanOf(c).gas_limit) \/ ~IsDecimal(PlanOf(c).gas_price)) =>
      /\ ResultOf(c).success = FALSE
      /\ ResultOf(c).error = Some(InvalidPlan)
      /\ ResultOf(c).tx_hash = None

\* C4: a call made after the plan's deadline returns TimedOut, and makes no
\* Node Client call.
C4_DeadlineLaw ==
  [][\A c \in Callers :
       Returns(c) /\ expired[c] =>
         /\ result'[c] # None
         /\ Unwrap(result'[c]).success = FALSE
         /\ Unwrap(result'[c]).error = Some(TimedOut)
         /\ nodeCalls' = nodeCalls]_vars

\* C5: no two calls with the same opportunity_id are in flight at once.
C5_AtMostOnce ==
  \A c, d \in Callers :
    c # d /\ InFlight(c) /\ InFlight(d) =>
      PlanOf(c).opportunity_id # PlanOf(d).opportunity_id

\* C6: a returned result has a tx_hash exactly when the execution broadcast
\* a transaction.
C6_HashIffBroadcast ==
  \A c \in Callers : Done(c) => (ResultOf(c).tx_hash # None <=> Broadcast(c))

\* C7: a returned result has gas_used only when the execution observed a
\* receipt.
C7_GasUsedOnlyWithReceipt ==
  \A c \in Callers : Done(c) => (ResultOf(c).gas_used # None => ReceiptObserved(c))

\* C8: with the node down, so that no broadcast can succeed, execute returns
\* success = false, tx_hash = None and error = "TimedOut".
C8_TimedOutWhenNodeDown ==
  [][\A c \in Callers :
       Returns(c) /\ node = "down" /\ node' = "down" =>
         /\ result'[c] # None
         /\ Unwrap(result'[c]).success = FALSE
         /\ Unwrap(result'[c]).tx_hash = None
         /\ Unwrap(result'[c]).error = Some(TimedOut)]_vars

\* C9: tx_hash is "0x", then '0' characters, then opportunity_id unchanged;
\* its length in characters is 2 + max(64, length of opportunity_id), so an
\* opportunity_id of more than 64 characters is kept whole.
C9_HashFormat ==
  \A c \in Callers :
    Done(c) =>
      LET id == PlanOf(c).opportunity_id
          h == Unwrap(ResultOf(c).tx_hash)
      IN /\ ResultOf(c).tx_hash # None
         /\ Len(h) = 2 + Max(HashWidth, Len(id))
         /\ SubSeq(h, 1, 2) = <<"0", "x">>
         /\ SubSeq(h, Len(h) - Len(id) + 1, Len(h)) = id
         /\ \A i \in 3..(Len(h) - Len(id)) : h[i] = "0"
         /\ (Len(id) > HashWidth => h = <<"0", "x">> \o id)

\* a call on an opportunity_id of more than 64 characters has returned
C9_Witness ==
  \E c \in Callers : Done(c) /\ Len(PlanOf(c).opportunity_id) > HashWidth

\* C10: two calls whose plans agree on opportunity_id and gas_limit return
\* the same result, whatever the other fields are, and gas_used is gas_limit
\* as given, parsed or not.
C10_DependsOnIdAndGasLimitOnly ==
  /\ \A c, d \in Callers :
       /\ Done(c) /\ Done(d)
       /\ PlanOf(c).opportunity_id = PlanOf(d).opportunity_id
       /\ PlanOf(c).gas_limit = PlanOf(d).gas_limit
       => ResultOf(c) = ResultOf(d)
  /\ \A c \in Callers : Done(c) => ResultOf(c).gas_used = Some(PlanOf(c).gas_limit)

\* two calls on plans that agree on opportunity_id and gas_limit and differ
\* in gas_price have returned
C10_Witness ==
  \E c, d \in Callers :
    /\ Done(c) /\ Done(d)
    /\ PlanOf(c).opportunity_id = PlanOf(d).opportunity_id
    /\ PlanOf(c).gas_limit = PlanOf(d).gas_limit
    /\ PlanOf(c).gas_price # PlanOf(d).gas_price

====
